---- MODULE Spec2Model ----
(***************************************************************************)
(* Model of Week1/playwright/skool_autonext/skool_resume_and_autoplay.py:  *)
(* the Lesson List Stabilizer, the Resume Selector, the Next-Lesson        *)
(* Navigator, the Video Watchdog, the Orchestrator loop and the Section    *)
(* Expander.                                                               *)
(*                                                                         *)
(* The browser page is the environment.  Whatever the page can answer to   *)
(* a read (a link count, a player property, a click that raises) is a      *)
(* nondeterministic choice; what the code does with the answer is          *)
(* translated from the source.                                             *)
(***************************************************************************)
EXTENDS Integers, Sequences, FiniteSets, TLC

(***************************************************************************)
(* Bounds of the model and program constants.                              *)
(***************************************************************************)
\* largest max_rounds argument the stabilizer is called with in the model
MaxRounds == 12
\* `if stable >= 10: break`
DebounceThreshold == 10
\* the link counts the page may answer to lesson_links(page).count()
LinkCounts == 0..1
\* longest list of lesson links rendered when a run starts
MaxLen == 3
\* most lesson links still un-rendered when a run starts
MaxHidden == 1
\* most Video Watchdog runs of one Orchestrator run in the model
MaxVisits == 2
\* most poll cycles of one Video Watchdog run in the model
MaxCycles == 3
\* max_video_wait_minutes * 60 * 1000, in units of the 3000 ms poll sleep
TimeoutTicks == 2
\* by how many units the clock may move during one poll sleep
ClockSteps == 0..2
\* the md values of the model: "1" is a proper prefix of "12"
Tokens == {<<"1">>, <<"1", "2">>, <<"2">>}
\* get_md_from_url's None
NoToken == <<>>
\* the name of the query parameter of a lesson link: ...?md=<id> or ...?xmd=<id>
ParamKeys == {"md", "xmd"}

VARIABLES
    \* ---- Lesson List Stabilizer (load_all_lessons_until_stable) ----
    st_pc,        \* "idle" | "loop" | "after" | "returned"
    max_rounds,   \* the max_rounds argument
    round,        \* number of completed iterations of `for _ in range(max_rounds)`
    last_count,   \* last_count
    stable,       \* stable
    reads,        \* the counts read inside the loop, in order
    scrolls,      \* number of js_scroll_down(page, 900) calls
    st_exit       \* "none" | "break" | "exhausted": how the loop was left

stabVars == <<st_pc, max_rounds, round, last_count, stable, reads, scrolls, st_exit>>

VARIABLES
    \* ---- the page ----
    links,        \* lesson_links(page): the rendered lesson anchors, in DOM order
    hidden,       \* lesson anchors not rendered yet, in DOM order after links
    url,          \* page.url
    changed,      \* the sidebar's contents changed since the run started
    \* ---- Resume Selector / Next-Lesson Navigator: the last call ----
    lastCall,     \* "none" | "resume" | "next"
    snap,         \* the links that call read
    urlBefore,    \* page.url when that call started
    navRet,       \* its return value
    navMsg,       \* what it printed about its outcome
    navClicks,    \* how many anchor.click calls its click_anchor_safe made
    navLanded,    \* whether one of them went through
    activated     \* the click_anchor_safe calls so far: [pos, id, landed]

pageVars == <<links, hidden, url, changed>>
callVars == <<lastCall, snap, urlBefore, navRet, navMsg, navClicks, navLanded, activated>>

VARIABLES
    \* ---- Orchestrator (main) ----
    pc,           \* "idle" | "resume" | "watch" | "advance" | "stabilize" | "retry"
                  \* | "done" | "crashed"
    trace,        \* the phases run so far, in order
    visits,       \* number of wait_for_video_end_or_skip calls
    wdOutcome     \* what the one that just ended returned

mainVars == <<pc, trace, visits, wdOutcome>>

VARIABLES
    \* ---- Video Watchdog (wait_for_video_end_or_skip) ----
    wd_pc,        \* "idle" | "detect1" | "detect2" | "ready" | "loop_start" | "poll_now"
                  \* | "poll_ended" | "poll_paused" | "sleep" | "returned" | "raised"
    dom,          \* the player elements of the page: [video, mux, muxPlayer]
    clock,        \* the page's Date.now(), in units of the 3000 ms poll sleep
    start_time,   \* start_time (-1: not read yet)
    wd_result,    \* "none" | "ended" | "no-video" | "duration-fail" | "timeout"
    det1, det2,   \* what the two detect_any_video_player calls returned
    recoveries,   \* number of click_thumbnail_to_load_video calls
    startForces,  \* number of force_start_video calls of line 447
    readyWaits,   \* number of wait_video_ready calls
    cycles,       \* number of poll cycles begun
    cycEnded,     \* what the player reported at this cycle's ended read
    cycPaused,    \* what the player reported at this cycle's paused read
    cycForces     \* number of force_start_video calls of this cycle

wdVars == <<wd_pc, dom, clock, start_time, wd_result, det1, det2, recoveries,
            startForces, readyWaits, cycles, cycEnded, cycPaused, cycForces>>

VARIABLES
    \* ---- Section Expander (expand_all_sections_safe) ----
    ex_pc,        \* "idle" | "enter" | "locate" | "click" | "passed" | "empty"
    ex_plan,      \* the rounds arguments of the calls to run, in order
    ex_pass,      \* which of them is running: 1, 2
    ex_r,         \* r
    ex_n,         \* n
    ex_i,         \* i
    \* ---- the sidebar's sections ----
    expanded,     \* whether each section is expanded, in document order
    shown,        \* how many of them have their toggle in the DOM: the first few
    atTop,        \* window.scrollY = 0
    \* ---- what the call did ----
    ex_located,   \* the sections whose toggles this round located, in order
    ex_log,       \* the attempts of this round, in order
    ex_rounds,    \* per round of this call: [n, top]
    ex_acts,      \* number of attempts of this call
    ex_before,    \* `expanded` when this call started
    ex_allOk,     \* every attempt so far went through
    ex_allShown   \* every round so far located the toggles of all sections

exVars == <<ex_pc, ex_plan, ex_pass, ex_r, ex_n, ex_i, expanded, shown, atTop,
            ex_located, ex_log, ex_rounds, ex_acts, ex_before, ex_allOk,
            ex_allShown>>

vars == <<stabVars, pageVars, callVars, mainVars, wdVars, exVars>>

\* everything but the stabilizer's own variables
notStabVars == <<pageVars, callVars, mainVars, wdVars, exVars>>

(***************************************************************************)
(* The parts of the state a specification does not use stay as they are    *)
(* here.                                                                   *)
(***************************************************************************)
StartUrl == [key |-> "none", id |-> NoToken]

PageIdle ==
    /\ links = <<>>
    /\ hidden = <<>>
    /\ url = StartUrl
    /\ changed = FALSE

CallIdle ==
    /\ lastCall = "none"
    /\ snap = <<>>
    /\ urlBefore = StartUrl
    /\ navRet = FALSE
    /\ navMsg = "none"
    /\ navClicks = 0
    /\ navLanded = FALSE
    /\ activated = <<>>

MainIdle ==
    /\ pc = "idle"
    /\ trace = <<>>
    /\ visits = 0
    /\ wdOutcome = "none"

ExIdle ==
    /\ ex_pc = "idle"
    /\ ex_plan = <<>>
    /\ ex_pass = 0
    /\ ex_r = 0
    /\ ex_n = 0
    /\ ex_i = 0
    /\ expanded = <<>>
    /\ shown = 0
    /\ atTop = TRUE
    /\ ex_located = <<>>
    /\ ex_log = <<>>
    /\ ex_rounds = <<>>
    /\ ex_acts = 0
    /\ ex_before = <<>>
    /\ ex_allOk = TRUE
    /\ ex_allShown = TRUE

\* no element of that shape in the page
NoElem == [dur |-> "absent", ended |-> FALSE, nearEnd |-> FALSE, paused |-> FALSE]

WdIdle ==
    /\ wd_pc = "idle"
    /\ dom = [video |-> NoElem, mux |-> NoElem, muxPlayer |-> FALSE]
    /\ clock = 0
    /\ start_time = -1
    /\ wd_result = "none"
    /\ det1 = "unread"
    /\ det2 = "unread"
    /\ recoveries = 0
    /\ startForces = 0
    /\ readyWaits = 0
    /\ cycles = 0
    /\ cycEnded = "unread"
    /\ cycPaused = "unread"
    /\ cycForces = 0

(***************************************************************************)
(* Lesson List Stabilizer                                                  *)
(***************************************************************************)

\* lines 149-152 with the reset dropped: the streak never goes back to zero
StableAfterReadNoReset(count, last, streak) ==
    IF count = last THEN streak + 1 ELSE streak

\* lines 149-152 with the reset to one instead of zero
StableAfterReadResetToOne(count, last, streak) ==
    IF count = last THEN streak + 1 ELSE 1

\* lines 149-152: if count == last_count: stable += 1 else: stable = 0
StableAfterRead(count, last, streak) ==
    IF count = last THEN streak + 1 ELSE 0

\* a loop without the debounce break
SettledNever(streak) == FALSE

\* line 154: if stable >= 10: break
Settled(streak) == streak >= DebounceThreshold

StabIdle ==
    /\ st_pc = "idle"
    /\ max_rounds = 0
    /\ round = 0
    /\ last_count = -1
    /\ stable = 0
    /\ reads = <<>>
    /\ scrolls = 0
    /\ st_exit = "none"

\* one iteration of the for loop, lines 146-158
StabRound ==
    /\ st_pc = "loop"
    /\ round < max_rounds
    /\ \E count \in LinkCounts :
         LET s == StableAfterRead(count, last_count, stable) IN
         /\ reads' = Append(reads, count)
         /\ stable' = s
         /\ \/ /\ Settled(s)
               /\ st_pc' = "after"
               /\ st_exit' = "break"
               /\ UNCHANGED <<last_count, scrolls, round>>
            \/ /\ ~Settled(s)
               /\ last_count' = count
               /\ scrolls' = scrolls + 1
               /\ round' = round + 1
               /\ UNCHANGED <<st_pc, st_exit>>
    /\ UNCHANGED <<max_rounds, notStabVars>>

\* range(max_rounds) is used up
StabExhaust ==
    /\ st_pc = "loop"
    /\ round >= max_rounds
    /\ st_pc' = "after"
    /\ st_exit' = "exhausted"
    /\ UNCHANGED <<max_rounds, round, last_count, stable, reads, scrolls, notStabVars>>

\* lines 160-162: js_scroll_to_top, wait, print; the function returns
StabReturn ==
    /\ st_pc = "after"
    /\ st_pc' = "returned"
    /\ UNCHANGED <<max_rounds, round, last_count, stable, reads, scrolls, st_exit, notStabVars>>

\* a call with any max_rounds: js_scroll_sidebar_into_view, js_scroll_to_top,
\* last_count = -1, stable = 0 (lines 140-144)
StabInit ==
    /\ st_pc = "loop"
    /\ max_rounds \in 0..MaxRounds
    /\ round = 0
    /\ last_count = -1
    /\ stable = 0
    /\ reads = <<>>
    /\ scrolls = 0
    /\ st_exit = "none"
    /\ PageIdle
    /\ CallIdle
    /\ MainIdle
    /\ WdIdle
    /\ ExIdle

StabNext ==
    \/ StabRound
    \/ StabExhaust
    \/ StabReturn

SpecStab == StabInit /\ [][StabNext]_vars

\* the call keeps running: each statement is followed by the next
SpecStabLive == SpecStab /\ WF_vars(StabNext)

\* the last n reads exist and are all equal
LastReadsEqual(n) ==
    /\ Len(reads) >= n
    /\ \A j \in (Len(reads) - n + 1)..Len(reads) : reads[j] = reads[Len(reads)]

\* C1 (as stated): whenever the stabilizer has returned, whatever max_rounds
\* was, the last count read has repeated over the DebounceThreshold scroll
\* rounds before the return (DebounceThreshold + 1 equal consecutive reads).
C1_Original ==
    st_pc = "returned" => LastReadsEqual(DebounceThreshold + 1)

\* C1 (amended): whenever the stabilizer has returned after leaving its loop
\* through the debounce break, the last DebounceThreshold + 1 reads are equal.
C1_StableOnBreak ==
    (st_pc = "returned" /\ st_exit = "break") => LastReadsEqual(DebounceThreshold + 1)

C1_Witness ==
    /\ st_pc = "returned"
    /\ st_exit = "break"
    /\ Len(reads) > DebounceThreshold + 1
    /\ \E j \in 1..Len(reads) : reads[j] # reads[Len(reads)]

(***************************************************************************)
(* The page's lesson links and location                                    *)
(***************************************************************************)

\* one lesson anchor of the sidebar: its href ends in <key>=<id>, and
\* completed is what is_completed(anchor) answers (marker present and read)
Entry == [key : ParamKeys, id : Tokens, completed : BOOLEAN]

SeqsUpTo(S, n) == UNION {[1..k -> S] : k \in 0..n}

\* links.nth(i), i counted from 0 as in the source
Nth(ls, i) == ls[i + 1]

\* the text of the anchor's href from the parameter name on
KeyText(k) == IF k = "md" THEN <<"m", "d">> ELSE <<"x", "m", "d">>

HrefText(e) == KeyText(e.key) \o <<"=">> \o e.id

\* page.url once the anchor's link is followed
Href(e) == [key |-> e.key, id |-> e.id]

Urls == {StartUrl} \cup [key : ParamKeys, id : Tokens]

\* parse_qs(urlparse(url).query).get("md", [None])[0]
GetMdFromUrl(u) == IF u.key = "md" THEN u.id ELSE NoToken

\* f"md={current_md}"
MdParam(md) == <<"m", "d", "=">> \o md

\* Python's `sub in s` on strings
Contains(sub, s) ==
    \E i \in 1..(Len(s) - Len(sub) + 1) : SubSeq(s, i, i + Len(sub) - 1) = sub

\* is_completed(anchor)
IsCompleted(a) == a.completed

\* ---- click_anchor_safe ----
\* "ok": the first click goes through; "retry_ok": it raises and the forced
\* click goes through; "fail": both raise and the error is swallowed
ClickOutcomes == {"ok", "retry_ok", "fail"}

ClicksOf(outcome) == IF outcome = "ok" THEN 1 ELSE 2

Landed(outcome) == outcome # "fail"

\* one click_anchor_safe(page, links.nth(i)) call: the anchor it is made on,
\* how many anchor.click calls it makes and whether one goes through; a
\* locator past the end of the list matches nothing and both clicks raise
ClickAnchorSafe(ls, i, outcome) ==
    IF i >= 0 /\ i < Len(ls)
    THEN [pos |-> i, id |-> Nth(ls, i).id, clicks |-> ClicksOf(outcome),
          landed |-> Landed(outcome)]
    ELSE [pos |-> i, id |-> NoToken, clicks |-> 2, landed |-> FALSE]

UrlAfterClick(u, ls, i, outcome) ==
    IF ClickAnchorSafe(ls, i, outcome).landed THEN Href(Nth(ls, i)) ELSE u

(***************************************************************************)
(* Resume Selector (resume_from_first_uncompleted, lines 196-219)          *)
(***************************************************************************)

\* the scan with the test inverted: stops at the first completed entry
RECURSIVE ResumeScanCompleted(_, _)
ResumeScanCompleted(ls, i) ==
    IF i >= Len(ls) THEN -1
    ELSE IF IsCompleted(Nth(ls, i)) THEN i
    ELSE ResumeScanCompleted(ls, i + 1)

\* for i in range(count): if not is_completed(links.nth(i)): ... return True
\* the position the loop stops at, -1 when it runs to the end
RECURSIVE ResumeScan(_, _)
ResumeScan(ls, i) ==
    IF i >= Len(ls) THEN -1
    ELSE IF ~IsCompleted(Nth(ls, i)) THEN i
    ELSE ResumeScan(ls, i + 1)

\* what the selector does on the links it read: its return value, the
\* position it clicks (-1: none) and what it prints
ResumeSelect(ls) ==
    IF Len(ls) = 0
    THEN [ret |-> FALSE, target |-> -1, msg |-> "no-lessons"]
    ELSE LET i == ResumeScan(ls, 0) IN
         IF i # -1
         THEN [ret |-> TRUE, target |-> i, msg |-> "resuming"]
         ELSE [ret |-> FALSE, target |-> -1, msg |-> "all-completed"]

(***************************************************************************)
(* Next-Lesson Navigator (click_next_lesson)                               *)
(***************************************************************************)

\* the scan without the break: the last matching entry wins
RECURSIVE ScanForCurrentLast(_, _, _)
ScanForCurrentLast(ls, md, i) ==
    IF i >= Len(ls) THEN -1
    ELSE LET later == ScanForCurrentLast(ls, md, i + 1) IN
         IF later # -1 THEN later
         ELSE IF Contains(MdParam(md), HrefText(Nth(ls, i))) THEN i ELSE -1

\* for i in range(count): if f"md={current_md}" in href: current_index = i; break
RECURSIVE ScanForCurrent(_, _, _)
ScanForCurrent(ls, md, i) ==
    IF i >= Len(ls) THEN -1
    ELSE IF Contains(MdParam(md), HrefText(Nth(ls, i))) THEN i
    ELSE ScanForCurrent(ls, md, i + 1)

\* the fallback scan that keeps going: stops at the last uncompleted entry
RECURSIVE FallbackScanLast(_, _)
FallbackScanLast(ls, i) ==
    IF i >= Len(ls) THEN -1
    ELSE LET later == FallbackScanLast(ls, i + 1) IN
         IF later # -1 THEN later
         ELSE IF ~IsCompleted(Nth(ls, i)) THEN i ELSE -1

\* lines 260-266: for i in range(count): if not is_completed(links.nth(i)): click
RECURSIVE FallbackScan(_, _)
FallbackScan(ls, i) ==
    IF i >= Len(ls) THEN -1
    ELSE IF ~IsCompleted(Nth(ls, i)) THEN i
    ELSE FallbackScan(ls, i + 1)

\* nxt = current_index with the + 1 lost
NextIndexSame(current_index) == current_index

\* nxt = current_index + 1
NextIndex(current_index) == current_index + 1

\* the end test off by one
PastEndStrict(nxt, count) == nxt > count

\* if nxt >= count
PastEnd(nxt, count) == nxt >= count

\* the empty index is not looked for
NoLinksNever(count) == FALSE

\* lines 244-246: if count == 0: print, return False
NoLinks(count) == count = 0

\* a navigator that always goes to the first uncompleted entry
ClickNextLessonResumeStyle(ls, u) ==
    IF Len(ls) = 0
    THEN [ret |-> FALSE, target |-> -1, msg |-> "no-lessons"]
    ELSE LET i == FallbackScan(ls, 0) IN
         IF i # -1
         THEN [ret |-> TRUE, target |-> i, msg |-> "fallback"]
         ELSE [ret |-> FALSE, target |-> -1, msg |-> "fallback"]

ClickNextLesson(ls, u) ==
    LET count == Len(ls) IN
    IF NoLinks(count)
    THEN [ret |-> FALSE, target |-> -1, msg |-> "no-lessons"]
    ELSE LET current_md == GetMdFromUrl(u)
             current_index == IF current_md # NoToken
                              THEN ScanForCurrent(ls, current_md, 0)
                              ELSE -1
         IN  IF current_index = -1
             THEN LET i == FallbackScan(ls, 0) IN
                  IF i # -1
                  THEN [ret |-> TRUE, target |-> i, msg |-> "fallback"]
                  ELSE [ret |-> FALSE, target |-> -1, msg |-> "fallback"]
             ELSE LET nxt == NextIndex(current_index) IN
                  IF PastEnd(nxt, count)
                  THEN [ret |-> FALSE, target |-> -1, msg |-> "end-of-loaded-list"]
                  ELSE [ret |-> TRUE, target |-> nxt, msg |-> "next"]

(***************************************************************************)
(* The two calls as steps on the page                                      *)
(***************************************************************************)

\* scrolling renders the first k of the links not rendered yet (the effect
\* on the page of expand_all_sections_safe / load_all_lessons_until_stable)
Reveal(k) ==
    /\ links' = links \o SubSeq(hidden, 1, k)
    /\ hidden' = SubSeq(hidden, k + 1, Len(hidden))
    /\ changed' = (changed \/ k > 0)

\* a call that read the links ls and decided r: the click it makes, if any
CallEffect(call, ls, r, outcome) ==
    /\ lastCall' = call
    /\ snap' = ls
    /\ urlBefore' = url
    /\ navRet' = r.ret
    /\ navMsg' = r.msg
    /\ IF r.target = -1
       THEN /\ url' = url
            /\ navClicks' = 0
            /\ navLanded' = FALSE
            /\ activated' = activated
       ELSE LET c == ClickAnchorSafe(ls, r.target, outcome) IN
            /\ url' = UrlAfterClick(url, ls, r.target, outcome)
            /\ navClicks' = c.clicks
            /\ navLanded' = c.landed
            /\ activated' = Append(activated,
                                  [pos |-> c.pos, id |-> c.id, landed |-> c.landed])

\* resume_from_first_uncompleted(page): two expand + load passes, then the scan
ResumeFromFirstUncompleted(k, outcome) ==
    /\ Reveal(k)
    /\ LET ls == links \o SubSeq(hidden, 1, k) IN
       CallEffect("resume", ls, ResumeSelect(ls), outcome)

\* click_next_lesson(page): no re-expand, no reload
NextLesson(outcome) ==
    /\ CallEffect("next", links, ClickNextLesson(links, url), outcome)
    /\ UNCHANGED <<links, hidden, changed>>

(***************************************************************************)
(* SpecNav: one call of the selector or of the navigator on any page       *)
(***************************************************************************)
NavInit ==
    /\ links \in SeqsUpTo(Entry, MaxLen)
    /\ hidden = <<>>
    /\ url \in Urls
    /\ changed = FALSE
    /\ CallIdle
    /\ StabIdle
    /\ MainIdle
    /\ WdIdle
    /\ ExIdle

NavResume ==
    /\ lastCall = "none"
    /\ \E k \in 0..Len(hidden), outcome \in ClickOutcomes :
         ResumeFromFirstUncompleted(k, outcome)
    /\ UNCHANGED <<stabVars, mainVars, wdVars, exVars>>

NavNextCall ==
    /\ lastCall = "none"
    /\ \E outcome \in ClickOutcomes : NextLesson(outcome)
    /\ UNCHANGED <<stabVars, mainVars, wdVars, exVars>>

NavNext ==
    \/ NavResume
    \/ NavNextCall

SpecNav == NavInit /\ [][NavNext]_vars

\* entry k is the first one with completed = false
FirstUncompletedAt(ls, k) ==
    /\ k \in 0..(Len(ls) - 1)
    /\ ~Nth(ls, k).completed
    /\ \A j \in 0..(k - 1) : Nth(ls, j).completed

\* the href of entry i contains md=<md>
Matches(ls, md, i) == Contains(MdParam(md), HrefText(Nth(ls, i)))

\* the linear scan for the location's token finds it at position i
\* (spec 4.4, "if found at position i")
FoundAt(ls, u, i) ==
    /\ GetMdFromUrl(u) # NoToken
    /\ i \in 0..(Len(ls) - 1)
    /\ Matches(ls, GetMdFromUrl(u), i)
    /\ \A j \in 0..(i - 1) : ~Matches(ls, GetMdFromUrl(u), j)

\* the location has no token, or no entry's href contains it
NotFound(ls, u) ==
    \/ GetMdFromUrl(u) = NoToken
    \/ \A j \in 0..(Len(ls) - 1) : ~Matches(ls, GetMdFromUrl(u), j)

\* the last call activated entry k, once, and nothing else
ActivatedOnly(k) ==
    /\ Len(activated) = 1
    /\ activated[1].pos = k

\* C2: for every non-empty index and every k, if entry k is the first entry
\* with completed = false, the Resume Selector activates exactly entry k and
\* returns True.
C2_ResumeSelectsFirstUncompleted ==
    lastCall = "resume" =>
        \A k \in 0..(Len(snap) - 1) :
            FirstUncompletedAt(snap, k) => (navRet = TRUE /\ ActivatedOnly(k))

\* the only uncompleted entry sits behind completed ones and was activated
C2_Witness ==
    /\ lastCall = "resume"
    /\ Len(snap) = MaxLen
    /\ FirstUncompletedAt(snap, Len(snap) - 1)
    /\ navRet = TRUE
    /\ ActivatedOnly(Len(snap) - 1)

C5_WitnessAllCompleted ==
    /\ lastCall = "next"
    /\ Len(snap) > 0
    /\ NotFound(snap, urlBefore)
    /\ \A j \in 0..(Len(snap) - 1) : Nth(snap, j).completed
    /\ navRet = FALSE
    /\ activated = <<>>

(***************************************************************************)
(* Video Watchdog (wait_for_video_end_or_skip, keep_video_alive_until_end)  *)
(***************************************************************************)

\* a <video> or <mux-video> element as the scripts see it: dur is "ok" when
\* `duration && duration > 5`, "short" when it is known but not above 5,
\* "unknown" when it is falsy (NaN, 0); nearEnd is
\* currentTime >= duration - 0.5, false while the duration is NaN; a media
\* element that has ended has a duration
PlayerStates ==
    {p \in [dur : {"unknown", "short", "ok"}, ended : BOOLEAN,
            nearEnd : BOOLEAN, paused : BOOLEAN] :
        p.dur = "unknown" => (~p.nearEnd /\ ~p.ended)}

Elems == PlayerStates \cup {NoElem}

Doms == [video : Elems, mux : Elems, muxPlayer : BOOLEAN]

Present(e) == e # NoElem

\* detect_any_video_player: any of video, mux-video, mux-player; an
\* evaluation error is caught and answers False
DetectAnyVideoPlayer(d, err) ==
    IF err THEN FALSE
    ELSE Present(d.video) \/ Present(d.mux) \/ d.muxPlayer

\* the predicate wait_video_ready waits for: p = v || mv; if (!p) return false;
\* ... return true
ReadyEval(d) == Present(d.video) \/ Present(d.mux)

\* the `ended` script of lines 399-413
EndedEval(d) ==
    IF Present(d.video) /\ d.video.dur = "ok"
    THEN d.video.ended \/ d.video.nearEnd
    ELSE IF Present(d.mux) /\ d.mux.dur = "ok"
    THEN d.mux.ended \/ d.mux.nearEnd
    ELSE FALSE

\* the `paused` script of lines 418-428
PausedEval(d) ==
    IF Present(d.video) /\ d.video.dur = "ok"
    THEN d.video.paused
    ELSE IF Present(d.mux) /\ d.mux.dur = "ok"
    THEN d.mux.paused
    ELSE FALSE

\* the re-check that lets a page without a player through
RecheckVerdictAlwaysGo(detected) == "go"

\* lines 443-447: if not detect_any_video_player(page): return "no-video"
RecheckVerdict(detected) == IF detected THEN "go" ELSE "no-video"

\* the resume forgotten
ForcesOnPausedNever(paused) == 0

\* lines 429-431: if paused: force_start_video(page)
ForcesOnPaused(paused) == IF paused THEN 1 ELSE 0

\* a loop without the overall timeout
TimedOutNever(now, start) == FALSE

\* if now - start_time > timeout_ms
TimedOut(now, start) == now - start > TimeoutTicks

YesNo(b) == IF b THEN "yes" ELSE "no"

\* ---- what the player reports, said without the scripts ----
\* the video / mux-video elements in the page
PresentPlayers(d) == {e \in {d.video, d.mux} : Present(e)}

\* there is a player and every player in the page reports ended = true
ReportsEnded(d) ==
    /\ PresentPlayers(d) # {}
    /\ \A e \in PresentPlayers(d) : e.ended

\* some player in the page reports ended = true or a position within 0.5 of
\* its duration
ReportsEndedOrNear(d) == \E e \in PresentPlayers(d) : e.ended \/ e.nearEnd

\* the player whose duration is known (video before mux-video)
KnownPlayer(d) ==
    IF Present(d.video) /\ d.video.dur = "ok" THEN d.video
    ELSE IF Present(d.mux) /\ d.mux.dur = "ok" THEN d.mux
    ELSE NoElem

\* the player reports paused = true with a known duration
ReportsPausedKnown(d) == Present(KnownPlayer(d)) /\ KnownPlayer(d).paused

\* ---- the steps ----
wdGhosts == <<cycEnded, cycPaused, cycForces>>

notWdVars == <<stabVars, pageVars, callVars, mainVars, exVars>>

\* lines 437-441: the first detection; without a player, one
\* click_thumbnail_to_load_video
WdDetect1 ==
    /\ wd_pc = "detect1"
    /\ \E err \in BOOLEAN :
         LET d == DetectAnyVideoPlayer(dom, err) IN
         /\ det1' = YesNo(d)
         /\ recoveries' = IF d THEN recoveries ELSE recoveries + 1
    /\ wd_pc' = "detect2"
    /\ UNCHANGED <<dom, clock, start_time, wd_result, det2, startForces,
                   readyWaits, cycles, wdGhosts,
                   notWdVars>>

\* lines 443-447: the re-check, then force_start_video
WdDetect2 ==
    /\ wd_pc = "detect2"
    /\ \E err \in BOOLEAN :
         LET d == DetectAnyVideoPlayer(dom, err) IN
         /\ det2' = YesNo(d)
         /\ \/ /\ RecheckVerdict(d) = "no-video"
               /\ wd_result' = "no-video"
               /\ wd_pc' = "returned"
               /\ UNCHANGED startForces
            \/ /\ RecheckVerdict(d) = "go"
               /\ startForces' = startForces + 1
               /\ wd_pc' = "ready"
               /\ UNCHANGED wd_result
    /\ UNCHANGED <<dom, clock, start_time, det1, recoveries, readyWaits, cycles,
                   wdGhosts,
                   notWdVars>>

\* lines 449-453: wait_video_ready; True once the predicate holds, False on
\* the 60 s timeout or on any error of the wait
WdReady ==
    /\ wd_pc = "ready"
    /\ readyWaits' = readyWaits + 1
    /\ \/ /\ ReadyEval(dom)
          /\ wd_pc' = "loop_start"
          /\ UNCHANGED wd_result
       \/ /\ ~ReadyEval(dom)
          /\ wd_result' = "duration-fail"
          /\ wd_pc' = "returned"
       \/ /\ wd_result' = "duration-fail"
          /\ wd_pc' = "returned"
    /\ UNCHANGED <<dom, clock, start_time, det1, det2, recoveries, startForces,
                   cycles, wdGhosts,
                   notWdVars>>

\* line 391: start_time = page.evaluate("() => Date.now()"), not guarded
WdLoopStart ==
    /\ wd_pc = "loop_start"
    /\ \/ /\ start_time' = clock
          /\ wd_pc' = "poll_now"
       \/ /\ wd_pc' = "raised"
          /\ UNCHANGED start_time
    /\ UNCHANGED <<dom, clock, wd_result, det1, det2, recoveries, startForces,
                   readyWaits, cycles, wdGhosts,
                   notWdVars>>

\* lines 394-397: a poll cycle begins with the timeout check
WdPollNow ==
    /\ wd_pc = "poll_now"
    /\ cycles < MaxCycles
    /\ cycles' = cycles + 1
    /\ \/ /\ TimedOut(clock, start_time)
          /\ wd_result' = "timeout"
          /\ wd_pc' = "returned"
       \/ /\ ~TimedOut(clock, start_time)
          /\ wd_pc' = "poll_ended"
          /\ UNCHANGED wd_result
       \/ /\ wd_pc' = "raised"
          /\ UNCHANGED wd_result
    /\ UNCHANGED <<dom, clock, start_time, det1, det2, recoveries, startForces,
                   readyWaits, wdGhosts,
                   notWdVars>>

\* lines 399-416: the ended check
WdPollEnded ==
    /\ wd_pc = "poll_ended"
    /\ \/ /\ cycEnded' = (IF ReportsEnded(dom) THEN "ended"
                          ELSE IF ReportsEndedOrNear(dom) THEN "near" ELSE "no")
          /\ \/ /\ EndedEval(dom)
                /\ wd_result' = "ended"
                /\ wd_pc' = "returned"
             \/ /\ ~EndedEval(dom)
                /\ wd_pc' = "poll_paused"
                /\ UNCHANGED wd_result
       \/ /\ wd_pc' = "raised"
          /\ UNCHANGED <<wd_result, cycEnded>>
    /\ UNCHANGED <<dom, clock, start_time, det1, det2, recoveries, startForces,
                   readyWaits, cycles, cycPaused, cycForces,
                   notWdVars>>

\* lines 418-431: the paused check and the resume
WdPollPaused ==
    /\ wd_pc = "poll_paused"
    /\ \/ /\ cycPaused' = YesNo(ReportsPausedKnown(dom))
          /\ cycForces' = cycForces + ForcesOnPaused(PausedEval(dom))
          /\ wd_pc' = "sleep"
       \/ /\ wd_pc' = "raised"
          /\ UNCHANGED <<cycPaused, cycForces>>
    /\ UNCHANGED <<dom, clock, start_time, wd_result, det1, det2, recoveries,
                   startForces, readyWaits, cycles, cycEnded,
                   notWdVars>>

\* line 433: page.wait_for_timeout(3000); the next cycle follows
WdSleep ==
    /\ wd_pc = "sleep"
    /\ \E step \in ClockSteps : clock' = clock + step
    /\ wd_pc' = "poll_now"
    /\ cycEnded' = "unread"
    /\ cycPaused' = "unread"
    /\ cycForces' = 0
    /\ UNCHANGED <<dom, start_time, wd_result, det1, det2, recoveries,
                   startForces, readyWaits, cycles,
                   notWdVars>>

\* a player element as it first shows up: nothing loaded, not playing
FreshElem == [dur |-> "unknown", ended |-> FALSE, nearEnd |-> FALSE, paused |-> TRUE]

\* what one element can turn into in one change of the page
ElemChanges(e) ==
    IF ~Present(e) THEN {FreshElem}
    ELSE {NoElem}
         \cup {[e EXCEPT !.dur = "unknown", !.nearEnd = FALSE, !.ended = FALSE]}
         \cup {[e EXCEPT !.dur = x] : x \in {"short", "ok"}}
         \cup {[e EXCEPT !.paused = ~e.paused]}
         \cup (IF e.dur = "unknown" THEN {}
               ELSE {[e EXCEPT !.ended = ~e.ended], [e EXCEPT !.nearEnd = ~e.nearEnd]})

\* the page changes under the watchdog: one element appears, disappears or
\* changes one thing it reports
WdDomChange ==
    /\ wd_pc \notin {"idle", "returned", "raised"}
    /\ \/ \E e \in ElemChanges(dom.video) \ {dom.video} : dom' = [dom EXCEPT !.video = e]
       \/ \E e \in ElemChanges(dom.mux) \ {dom.mux} : dom' = [dom EXCEPT !.mux = e]
       \/ dom' = [dom EXCEPT !.muxPlayer = ~dom.muxPlayer]
    /\ UNCHANGED <<wd_pc, clock, start_time, wd_result, det1, det2, recoveries,
                   startForces, readyWaits, cycles, wdGhosts, notWdVars>>

WdInit ==
    /\ wd_pc = "detect1"
    /\ dom \in Doms
    /\ clock \in 0..1
    /\ start_time = -1
    /\ wd_result = "none"
    /\ det1 = "unread"
    /\ det2 = "unread"
    /\ recoveries = 0
    /\ startForces = 0
    /\ readyWaits = 0
    /\ cycles = 0
    /\ cycEnded = "unread"
    /\ cycPaused = "unread"
    /\ cycForces = 0
    /\ StabIdle
    /\ PageIdle
    /\ CallIdle
    /\ MainIdle
    /\ ExIdle

WdNext ==
    \/ WdDetect1
    \/ WdDetect2
    \/ WdReady
    \/ WdLoopStart
    \/ WdPollNow
    \/ WdPollEnded
    \/ WdPollPaused
    \/ WdSleep
    \/ WdDomChange

SpecWatch == WdInit /\ [][WdNext]_vars

\* C6: if no player is detected at the first check and none at the re-check
\* after the recovery attempt, the run returns "no-video" at once: no
\* force-start, no readiness wait, no poll cycle; and the recovery
\* (click_thumbnail_to_load_video) is attempted at most once in any run.
C6_NoPlayerNoVideo ==
    /\ recoveries <= 1
    /\ (det1 = "no" /\ det2 = "no") =>
          /\ wd_pc = "returned"
          /\ wd_result = "no-video"
          /\ recoveries = 1
          /\ startForces = 0
          /\ readyWaits = 0
          /\ cycles = 0
          /\ start_time = -1

C6_Witness ==
    /\ det1 = "no"
    /\ det2 = "no"
    /\ recoveries = 1
    /\ wd_pc = "returned"
    /\ wd_result = "no-video"

\* C7 (as stated): in a poll cycle whose ended check finds the player
\* reporting ended = true the loop returns "ended"; and the loop returns
\* "ended" only in a cycle whose ended check found a player reporting ended
\* or a position within 0.5 of its duration.
C7_EndedReportEndsLoop ==
    /\ cycEnded = "ended" => wd_result = "ended"
    /\ wd_result = "ended" => cycEnded \in {"ended", "near"}

WatchdogOutcomes == {"ended", "no-video", "duration-fail", "timeout"}

\* the site marks the lesson on display as completed
MarkCompleted(ls, u) ==
    [j \in 1..Len(ls) |->
        IF Href(ls[j]) = u THEN [ls[j] EXCEPT !.completed = TRUE] ELSE ls[j]]

Event(ev, ret, msg) == [ev |-> ev, ret |-> ret, msg |-> msg]

\* a failed first navigator call ends the run at once
AfterAdvanceNoRetry(ret) == IF ret THEN "watch" ELSE "done"

\* line 511: if not click_next_lesson(page): scroll deeper, load, try again
AfterAdvance(ret) == IF ret THEN "watch" ELSE "stabilize"

\* lines 517-519: if not click_next_lesson(page): break
AfterRetry(ret) == IF ret THEN "watch" ELSE "done"

\* the run goes on to the watchdog though nothing was resumed
AfterResumeWatchAnyway(ret) == "watch"

\* lines 494-496: if not resumed: browser.close(); return
AfterResume(ret) == IF ret THEN "watch" ELSE "done"

\* a run that stops when a lesson has no video
AfterWatchNoVideoDone(outcome) == IF outcome = "no-video" THEN "done" ELSE "advance"

\* lines 500-511: the value wait_for_video_end_or_skip returns is dropped;
\* Escape, a wait, then click_next_lesson
AfterWatch(outcome) == "advance"

\* lines 493-496: resumed = resume_from_first_uncompleted(page)
MainResume ==
    /\ pc = "resume"
    /\ \E k \in 0..Len(hidden), outcome \in ClickOutcomes :
         ResumeFromFirstUncompleted(k, outcome)
    /\ pc' = AfterResume(navRet')
    /\ trace' = Append(trace, Event("resume", navRet', navMsg'))
    /\ UNCHANGED <<visits, wdOutcome, stabVars, wdVars, exVars>>

\* lines 500-507: one Video Watchdog run; it returns an outcome or an
\* unguarded page.evaluate of its poll loop raises and ends the run
MainWatch ==
    /\ pc = "watch"
    /\ visits < MaxVisits
    /\ visits' = visits + 1
    /\ trace' = Append(trace, Event("watch", TRUE, "none"))
    /\ \/ /\ \E o \in WatchdogOutcomes : wdOutcome' = o
          /\ pc' = AfterWatch(wdOutcome')
          /\ \E mark \in BOOLEAN :
               /\ links' = IF mark THEN MarkCompleted(links, url) ELSE links
               /\ changed' = (changed \/ links' # links)
       \/ /\ wdOutcome' = "raised"
          /\ pc' = "crashed"
          /\ UNCHANGED <<links, changed>>
    /\ UNCHANGED <<hidden, url, callVars, stabVars, wdVars, exVars>>

\* line 511: the first navigator call of the Advancing phase
MainAdvance ==
    /\ pc = "advance"
    /\ \E outcome \in ClickOutcomes : NextLesson(outcome)
    /\ pc' = AfterAdvance(navRet')
    /\ trace' = Append(trace, Event("advance", navRet', navMsg'))
    /\ wdOutcome' = "none"
    /\ UNCHANGED <<visits, stabVars, wdVars, exVars>>

\* lines 512-515: js_scroll_down(page, 2500) and one
\* load_all_lessons_until_stable(page, max_rounds=120)
MainStabilize ==
    /\ pc = "stabilize"
    /\ \E k \in 0..Len(hidden) : Reveal(k)
    /\ pc' = "retry"
    /\ trace' = Append(trace, Event("stabilize", TRUE, "none"))
    /\ UNCHANGED <<url, callVars, visits, wdOutcome, stabVars, wdVars, exVars>>

\* lines 517-519: the retried navigator call
MainRetry ==
    /\ pc = "retry"
    /\ \E outcome \in ClickOutcomes : NextLesson(outcome)
    /\ pc' = AfterRetry(navRet')
    /\ trace' = Append(trace, Event("retry", navRet', navMsg'))
    /\ UNCHANGED <<visits, wdOutcome, stabVars, wdVars, exVars>>

\* the lesson links of a run: every href is ...?md=<id>
MainEntry == {e \in Entry : e.key = "md"}

\* lines 484-491: the classroom page is open, nothing is selected; the course
\* has at most MaxLen lessons, the last few of which may not be rendered yet
MainInit ==
    /\ \E course \in SeqsUpTo(MainEntry, MaxLen) :
          \E h \in 0..MaxHidden :
             /\ h <= Len(course)
             /\ links = SubSeq(course, 1, Len(course) - h)
             /\ hidden = SubSeq(course, Len(course) - h + 1, Len(course))
    /\ url = StartUrl
    /\ changed = FALSE
    /\ CallIdle
    /\ pc = "resume"
    /\ trace = <<>>
    /\ visits = 0
    /\ wdOutcome = "none"
    /\ StabIdle
    /\ WdIdle
    /\ ExIdle

MainNext ==
    \/ MainResume
    \/ MainWatch
    \/ MainAdvance
    \/ MainStabilize
    \/ MainRetry

SpecMain == MainInit /\ [][MainNext]_vars

(***************************************************************************)
(* Claims about the run (SpecMain)                                         *)
(***************************************************************************)
IsPrefix(s, t) ==
    /\ Len(s) <= Len(t)
    /\ \A i \in 1..Len(s) : s[i] = t[i]

\* no two entries of ls have the same id
DistinctIds(ls) ==
    \A i, j \in 1..Len(ls) : ls[i].id = ls[j].id => i = j

\* three rendered lessons of different ids, entries 0 and 1 completed, entry
\* 2 not, nothing left to render and no entry changed since the run began
Scenario ==
    /\ ~changed
    /\ DistinctIds(links)
    /\ hidden = <<>>
    /\ Len(links) = 3
    /\ Nth(links, 0).completed
    /\ Nth(links, 1).completed
    /\ ~Nth(links, 2).completed

\* the phases the scenario is to go through, in order
ScenarioPhases ==
    << Event("resume", TRUE, "resuming"),
       Event("watch", TRUE, "none"),
       Event("advance", FALSE, "end-of-loaded-list"),
       Event("stabilize", TRUE, "none"),
       Event("retry", FALSE, "end-of-loaded-list") >>

\* the run so far is an initial part of those phases, it is done exactly when
\* they are complete, and the one activation made is of entry 2
ScenarioRun ==
    /\ IsPrefix(trace, ScenarioPhases)
    /\ (pc = "done") <=> (trace = ScenarioPhases)
    /\ Len(activated) = (IF trace = <<>> THEN 0 ELSE 1)
    /\ \A i \in 1..Len(activated) : activated[i].pos = 2

\* every activation made so far landed: the location became the href of the
\* entry that was clicked
AllLanded == \A i \in 1..Len(activated) : activated[i].landed

\* C9 (as stated, for the runs in which every activation lands): in the
\* scenario the run is resume (entry 2), one watch, an advance reporting
\* end-of-loaded-list, one stabilization, a retry that cannot advance, then
\* done; entries 0 and 1 are never activated.
C9_ScenarioRunsToDone == (Scenario /\ AllLanded) => ScenarioRun

\* the navigator call recorded as event i of the run could not advance
Failed(i, ev) == trace[i].ev = ev /\ ~trace[i].ret

\* event i is the last one and the run is at p, or event i + 1 is an ev
Then(i, ev, p) ==
    IF i = Len(trace) THEN pc = p ELSE trace[i + 1].ev = ev

\* C10: in each Advancing phase a navigator call that cannot advance is
\* followed by exactly one stabilization pass and one retry; the run is done
\* out of an Advancing phase iff that retry cannot advance either; so a phase
\* makes at most two navigator calls and done is never reached without a
\* stabilization between two consecutive failed navigator calls.
C10_OneStabilizeOneRetry ==
    /\ \A i \in 1..Len(trace) :
         /\ trace[i].ev = "advance" =>
               /\ i > 1 /\ trace[i - 1].ev = "watch"
               /\ IF trace[i].ret THEN Then(i, "watch", "watch")
                                  ELSE Then(i, "stabilize", "stabilize")
         /\ trace[i].ev = "stabilize" =>
               /\ i > 1 /\ Failed(i - 1, "advance")
               /\ Then(i, "retry", "retry")
         /\ trace[i].ev = "retry" =>
               /\ i > 1 /\ trace[i - 1].ev = "stabilize"
               /\ IF trace[i].ret THEN Then(i, "watch", "watch")
                                  ELSE i = Len(trace) /\ pc = "done"
    /\ (pc = "done" /\ Len(trace) > 1) =>
          /\ Len(trace) >= 3
          /\ Failed(Len(trace), "retry")
          /\ trace[Len(trace) - 1].ev = "stabilize"
          /\ Failed(Len(trace) - 2, "advance")
    /\ pc \in {"stabilize", "retry"} => visits > 0

\* a run of two Advancing phases: the first retry advanced, the second did
\* not and the run is done
C10_Witness ==
    /\ pc = "done"
    /\ visits = 2
    /\ \E i \in 1..Len(trace) : trace[i].ev = "retry" /\ trace[i].ret
    /\ Failed(Len(trace), "retry")

\* the activations so far went through the index one entry at a time
InOrder ==
    \A i \in 1..(Len(activated) - 1) : activated[i + 1].pos = activated[i].pos + 1

\* C11 (as stated, for the runs in which every activation lands): for an
\* index of pairwise distinct ids whose entries do not change, the run
\* activates the resume target and then each following entry in index order,
\* so it makes no more watchdog runs than there are entries from the resume
\* target on, and it is done only after activating the last entry.
C11_BoundedInOrder ==
    (DistinctIds(links) /\ ~changed /\ AllLanded /\ activated # <<>>) =>
        /\ FirstUncompletedAt(links, activated[1].pos)
        /\ InOrder
        /\ visits <= Len(links) - activated[1].pos
        /\ pc = "done" => activated[Len(activated)].pos = Len(links) - 1

\* every entry of ls is completed (so also: ls is empty)
NothingToResume(ls) == \A j \in 1..Len(ls) : ls[j].completed

\* C12: when the Resume Selector finds nothing to resume (index empty or all
\* entries completed) the run is done at once: the resume is its only phase,
\* no watchdog run, no navigator call, no activation.
C12_NothingToResumeIsDone ==
    /\ (lastCall = "resume" /\ NothingToResume(snap)) =>
          (trace # <<>> /\ ~trace[1].ret)
    /\ (trace # <<>> /\ ~trace[1].ret) =>
          /\ pc = "done"
          /\ Len(trace) = 1
          /\ lastCall = "resume"
          /\ NothingToResume(snap)
          /\ visits = 0
          /\ activated = <<>>

\* a full index of completed lessons: the run is done after the resume
C12_Witness ==
    /\ pc = "done"
    /\ Len(snap) = MaxLen
    /\ NothingToResume(snap)
    /\ trace = <<Event("resume", FALSE, "all-completed")>>
    /\ visits = 0

\* C13: after every watchdog run, whatever it returned, the next phase is
\* the Advancing phase with its navigator call; no returned outcome ends the
\* run.
C13_EveryOutcomeAdvances ==
    /\ wdOutcome \in WatchdogOutcomes => pc = "advance"
    /\ \A i \in 1..Len(trace) :
         trace[i].ev = "watch" =>
            IF i = Len(trace)
            THEN \/ pc = "advance" /\ wdOutcome \in WatchdogOutcomes
                 \/ pc = "crashed" /\ wdOutcome = "raised"
            ELSE trace[i + 1].ev = "advance"

\* the second watchdog run of a run found no video and the run advances
C13_Witness ==
    /\ wdOutcome = "no-video"
    /\ visits = 2
    /\ pc = "advance"

(***************************************************************************)
(* More claims about the watchdog (SpecWatch)                              *)
(***************************************************************************)

\* the polling loop has started and the overall timeout has elapsed since
Elapsed == start_time # -1 /\ clock - start_time > TimeoutTicks

\* the checks of a poll cycle after its timeout check
AfterTimeoutCheck == {"poll_ended", "poll_paused", "sleep"}

\* C14 (as stated): a watchdog run that is over has exactly one of the four
\* outcomes, and a poll cycle that begins with the overall timeout elapsed
\* returns "timeout": no ended check, paused check or sleep is made in it.
C14_RunEndsWithOutcome ==
    /\ wd_pc \in {"returned", "raised"} => wd_result \in WatchdogOutcomes
    /\ wd_pc \in AfterTimeoutCheck => ~Elapsed

\* C18 (as stated): no failing DOM read gets out of the watchdog as an
\* exception; a run that is over has returned one of the four outcomes.
C18_NoReadFailureEscapes ==
    /\ wd_pc # "raised"
    /\ wd_pc = "returned" => wd_result \in WatchdogOutcomes

\* C19: every poll cycle checks timeout, then ended, then paused: with the
\* timeout elapsed it returns "timeout" before the ended read; the resume is
\* issued only after the timeout check and the ended check of the same cycle
\* let it through; the sleep comes after all three checks.
C19_TimeoutEndedPausedInOrder ==
    /\ wd_pc \in AfterTimeoutCheck => (~Elapsed /\ wd_result = "none")
    /\ wd_pc = "poll_ended" =>
          (cycEnded = "unread" /\ cycPaused = "unread" /\ cycForces = 0)
    /\ wd_pc = "poll_paused" =>
          (cycEnded # "unread" /\ cycPaused = "unread" /\ cycForces = 0)
    /\ wd_pc = "sleep" => (cycEnded # "unread" /\ cycPaused # "unread")
    /\ wd_result = "timeout" =>
          (Elapsed /\ cycEnded = "unread" /\ cycPaused = "unread" /\ cycForces = 0)
    /\ wd_result = "ended" =>
          (~Elapsed /\ cycEnded # "unread" /\ cycPaused = "unread" /\ cycForces = 0)
    /\ cycForces > 0 => wd_pc = "sleep"

\* a cycle after the first returned "timeout" while the player, its duration
\* known, reports ended
C19_Witness ==
    /\ wd_pc = "returned"
    /\ wd_result = "timeout"
    /\ cycles >= 2
    /\ EndedEval(dom)
    /\ ReportsEnded(dom)

\* C20 (as stated, for a page whose player is a mux-player): a run whose
\* page holds a player of a shape the detection accepts is not given up as
\* "duration-fail".
C20_AnyDetectedShapeIsReady ==
    (wd_result = "duration-fail" /\ PresentPlayers(dom) = {}) => ~dom.muxPlayer

(***************************************************************************)
(* More claims about the stabilizer (SpecStabLive)                         *)
(***************************************************************************)

\* at most max_rounds reads and scroll-downs; the loop is left through the
\* break, before range(max_rounds) runs out, exactly when the streak has
\* reached the threshold
StabBounds ==
    /\ Len(reads) <= max_rounds
    /\ scrolls <= max_rounds
    /\ st_pc \in {"after", "returned"} =>
          /\ (st_exit = "break") <=> (stable >= DebounceThreshold)
          /\ st_exit = "break" => (round < max_rounds /\ scrolls < max_rounds)
          /\ st_exit = "exhausted" => (Len(reads) = max_rounds /\ scrolls = max_rounds)

C16_EmptyDistinctFromComplete ==
    (lastCall = "resume" /\ snap # <<>> /\ NothingToResume(snap)) =>
        navRet # ResumeSelect(<<>>).ret

\* C17: on an empty index the navigator returns its no-lessons outcome and
\* activates nothing; the location plays no part in it (whatever the
\* location, the call is the same), and neither the token match nor the
\* fallback is reached.
C17_EmptyIndexNoLessons ==
    (lastCall = "next" /\ snap = <<>>) =>
        /\ navRet = FALSE
        /\ navMsg = "no-lessons"
        /\ activated = <<>>
        /\ url = urlBefore
        /\ \A u \in Urls : ClickNextLesson(snap, u) = ClickNextLesson(snap, urlBefore)

\* the navigator was called on an empty index from a location with a token
C17_Witness ==
    /\ lastCall = "next"
    /\ snap = <<>>
    /\ GetMdFromUrl(urlBefore) # NoToken
    /\ navMsg = "no-lessons"

(***************************************************************************)
(* The streak of the stabilizer (SpecStab)                                 *)
(***************************************************************************)

\* the number of most recent consecutive reads of rs, down from read n, that
\* equal the read before them; the first read has no read before it
RECURSIVE StreakOf(_, _)
StreakOf(rs, n) ==
    IF n < 2 THEN 0
    ELSE IF rs[n] = rs[n - 1] THEN 1 + StreakOf(rs, n - 1) ELSE 0

\* C24: at every step of the stabilizer the streak is the number of most
\* recent consecutive reads equal to the read before them (so: plus one on
\* an equal read, zero on a different one, the first read never counted),
\* and it stays within 0..10.
C24_StreakCountsEqualReads ==
    /\ stable = StreakOf(reads, Len(reads))
    /\ stable >= 0
    /\ stable <= DebounceThreshold

\* the count repeated twice and then changed: the streak is back to zero
C24_Witness ==
    /\ st_pc = "loop"
    /\ Len(reads) >= 4
    /\ reads[Len(reads) - 1] = reads[Len(reads) - 2]
    /\ reads[Len(reads) - 2] = reads[Len(reads) - 3]
    /\ reads[Len(reads)] # reads[Len(reads) - 1]
    /\ stable = 0

(***************************************************************************)
(* Which entry the navigator takes for the current lesson (SpecNav)        *)
(***************************************************************************)

\* the positions whose href contains md=<token of u>
MatchingPositions(ls, u) ==
    {j \in 0..(Len(ls) - 1) : Matches(ls, GetMdFromUrl(u), j)}

\* the lowest of a non-empty set of positions
Lowest(S) == CHOOSE i \in S : \A j \in S : i <= j

C26_CurrentHasTokenId ==
    (lastCall = "next" /\ snap # <<>> /\ GetMdFromUrl(urlBefore) # NoToken) =>
        LET i == ScanForCurrent(snap, GetMdFromUrl(urlBefore), 0) IN
        i # -1 => (Nth(snap, i).key = "md" /\ Nth(snap, i).id = GetMdFromUrl(urlBefore))

\* C28 (as stated): when the navigator reports advanced, the activation it
\* made landed: the location is the href of the entry it activated and is
\* not the location from before the call.
C28_AdvancedMeansMoved ==
    (lastCall = "next" /\ navRet = TRUE) =>
        /\ Len(activated) = 1
        /\ navLanded
        /\ url = Href(Nth(snap, activated[1].pos))
        /\ url # urlBefore

\* ls with its completion flags set in every possible way
FlagVariants(ls) ==
    {[j \in 1..Len(ls) |-> [ls[j] EXCEPT !.completed = f[j]]] :
        f \in [1..Len(ls) -> BOOLEAN]}

C27_NoLessonActivatedTwice ==
    DistinctIds(links) =>
        \A i, j \in 1..Len(activated) :
            activated[i].id = activated[j].id => i = j

(***************************************************************************)
(* The Section Expander: expand_all_sections_safe, lines 96-131, and the   *)
(* two calls of it in resume_from_first_uncompleted, lines 189-194.        *)
(*                                                                         *)
(* The sidebar is a list of sections in document order.  The page renders  *)
(* the toggles of the first `shown` of them; scrolling may make it render  *)
(* more, or leave none in the DOM.  A click that goes through flips the    *)
(* section.                                                                *)
(***************************************************************************)
\* most sections of the sidebar
MaxSections == 3
\* largest rounds argument of a single call in the model
MaxExpandRounds == 2
\* expand_all_sections_safe(page, rounds=2), then (page, rounds=1)
ResumePasses == <<2, 1>>
\* what one attempt on a toggle may meet: it goes through, ico.click
\* raises, ico.scroll_into_view_if_needed raises
ToggleOutcomes == {"ok", "click_fail", "scroll_fail"}

\* page.locator(SIDEBAR_ROOT ... svg): the toggles in the DOM, in document order
Icons(n) == [k \in 1..n |-> k]

\* always the first element
IconsFirst(n, i) == Icons(n)[1]

\* icons.nth(i)
IconsNth(n, i) == Icons(n)[i + 1]

\* one round too many
MoreRoundsOneMore(r, rounds) == r < rounds + 1

\* `for r in range(rounds)`
MoreRounds(r, rounds) == r < rounds

\* `if n == 0: return`
NoIcons(n) == n = 0

\* the try block of lines 116-125 on the element `target`: the click is
\* reached only when scroll_into_view_if_needed did not raise
Attempt(target, outcome) ==
    [sec      |-> target,
     scrolled |-> outcome # "scroll_fail",
     clicked  |-> outcome # "scroll_fail",
     ok       |-> outcome = "ok"]

\* the page's answer to a click on a toggle: the section flips
Flip(e, s) == [e EXCEPT ![s] = ~e[s]]

\* what a scroll may do to the toggles in the DOM
AfterScroll(n, total) == {0} \cup n..total

\* ---- the steps of one call ----
\* lines 103-104: js_scroll_sidebar_into_view, js_scroll_to_top
ExEnter ==
    /\ ex_pc = "enter"
    /\ ex_pc' = "locate"
    /\ atTop' = TRUE
    /\ ex_r' = 0
    /\ ex_n' = 0
    /\ ex_i' = 0
    /\ ex_located' = <<>>
    /\ ex_log' = <<>>
    /\ ex_rounds' = <<>>
    /\ ex_acts' = 0
    /\ ex_before' = expanded
    /\ UNCHANGED <<ex_plan, ex_pass, expanded, shown, ex_allOk, ex_allShown>>
    /\ UNCHANGED <<stabVars, pageVars, callVars, mainVars, wdVars>>

\* lines 106-114: the head of a round: locate, count, return if none
ExLocate ==
    /\ ex_pc = "locate"
    /\ MoreRounds(ex_r, ex_plan[ex_pass])
    /\ ex_n' = shown
    /\ ex_i' = 0
    /\ ex_located' = Icons(shown)
    /\ ex_log' = <<>>
    /\ ex_rounds' = Append(ex_rounds, [n |-> shown, top |-> atTop])
    /\ ex_pc' = IF NoIcons(shown) THEN "empty" ELSE "click"
    /\ ex_allShown' = (ex_allShown /\ shown = Len(expanded))
    /\ UNCHANGED <<ex_plan, ex_pass, ex_r, expanded, shown, atTop, ex_acts,
                   ex_before, ex_allOk>>
    /\ UNCHANGED <<stabVars, pageVars, callVars, mainVars, wdVars>>

\* lines 115-125: one iteration of `for i in range(n)`
ExClick ==
    /\ ex_pc = "click"
    /\ ex_i < ex_n
    /\ \E outcome \in ToggleOutcomes, moved \in BOOLEAN :
         LET target == IconsNth(shown, ex_i)
             a == Attempt(target, outcome)
         IN /\ ex_log' = Append(ex_log, a)
            /\ ex_allOk' = (ex_allOk /\ a.ok)
            /\ expanded' = IF a.ok THEN Flip(expanded, target) ELSE expanded
            /\ atTop' = IF a.scrolled /\ moved THEN FALSE ELSE atTop
    /\ ex_acts' = ex_acts + 1
    /\ ex_i' = ex_i + 1
    /\ UNCHANGED <<ex_pc, ex_plan, ex_pass, ex_r, ex_n, shown, ex_located,
                   ex_rounds, ex_before, ex_allShown>>
    /\ UNCHANGED <<stabVars, pageVars, callVars, mainVars, wdVars>>

\* lines 127-128: the tail of a round: js_scroll_down(page, 1400)
ExScrollDown ==
    /\ ex_pc = "click"
    /\ ~(ex_i < ex_n)
    /\ \E moved \in BOOLEAN :
         /\ atTop' = IF moved THEN FALSE ELSE atTop
         /\ shown' \in IF moved THEN AfterScroll(shown, Len(expanded)) ELSE {shown}
    /\ ex_r' = ex_r + 1
    /\ ex_pc' = "locate"
    /\ UNCHANGED <<ex_plan, ex_pass, ex_n, ex_i, expanded, ex_located, ex_log,
                   ex_rounds, ex_acts, ex_before, ex_allOk, ex_allShown>>
    /\ UNCHANGED <<stabVars, pageVars, callVars, mainVars, wdVars>>

\* lines 130-131: after the last round: js_scroll_to_top
ExFinal ==
    /\ ex_pc = "locate"
    /\ ~MoreRounds(ex_r, ex_plan[ex_pass])
    /\ atTop' = TRUE
    /\ ex_pc' = "passed"
    /\ UNCHANGED <<ex_plan, ex_pass, ex_r, ex_n, ex_i, expanded, shown,
                   ex_located, ex_log, ex_rounds, ex_acts, ex_before, ex_allOk,
                   ex_allShown>>
    /\ UNCHANGED <<stabVars, pageVars, callVars, mainVars, wdVars>>

\* lines 190-193: load_all_lessons_until_stable scrolls the page, then the
\* next call of the expander starts
ExNextPass ==
    /\ ex_pc \in {"passed", "empty"}
    /\ ex_pass < Len(ex_plan)
    /\ ex_pass' = ex_pass + 1
    /\ ex_pc' = "enter"
    /\ \E moved \in BOOLEAN :
         /\ atTop' = ~moved
         /\ shown' \in IF moved THEN AfterScroll(shown, Len(expanded)) ELSE {shown}
    /\ UNCHANGED <<ex_plan, ex_r, ex_n, ex_i, expanded, ex_located, ex_log,
                   ex_rounds, ex_acts, ex_before, ex_allOk, ex_allShown>>
    /\ UNCHANGED <<stabVars, pageVars, callVars, mainVars, wdVars>>

\* a call with any rounds argument, or the two calls of the Resume phase, on
\* any sidebar
ExInit ==
    /\ ex_pc = "enter"
    /\ ex_plan \in {<<r>> : r \in 0..MaxExpandRounds} \cup {ResumePasses}
    /\ ex_pass = 1
    /\ ex_r = 0
    /\ ex_n = 0
    /\ ex_i = 0
    /\ expanded \in SeqsUpTo(BOOLEAN, MaxSections)
    /\ shown \in 0..Len(expanded)
    /\ atTop \in BOOLEAN
    /\ ex_located = <<>>
    /\ ex_log = <<>>
    /\ ex_rounds = <<>>
    /\ ex_acts = 0
    /\ ex_before = expanded
    /\ ex_allOk = TRUE
    /\ ex_allShown = TRUE
    /\ StabIdle
    /\ PageIdle
    /\ CallIdle
    /\ MainIdle
    /\ WdIdle

ExNext ==
    \/ ExEnter
    \/ ExLocate
    \/ ExClick
    \/ ExScrollDown
    \/ ExFinal
    \/ ExNextPass

SpecExpand == ExInit /\ [][ExNext]_vars

ExTypeOK ==
    /\ ex_pc \in {"enter", "locate", "click", "passed", "empty"}
    /\ ex_i <= ex_n
    /\ Len(ex_log) = ex_i
    /\ shown <= Len(expanded)

\* the round's loop over the located toggles is over
RoundOver == ex_pc \in {"click", "locate", "passed"} /\ ex_located # <<>> /\ ex_i = ex_n

\* the attempts of this round on section s
AttemptsOn(s) == {k \in 1..Len(ex_log) : ex_log[k].sec = s}

C22_LaterRoundsStartAtTop ==
    \A k \in 2..Len(ex_rounds) : ex_rounds[k].top

RECURSIVE SumN(_, _)
SumN(rs, k) == IF k = 0 THEN 0 ELSE rs[k].n + SumN(rs, k - 1)

\* C23: a call runs at most `rounds` rounds and makes at most as many attempts
\* as its rounds located toggles, so at most rounds times the most one round
\* located; a round that locates none is the call's last, the call has
\* returned, and the round made no attempt.
C23_BoundedRoundsStopAtZero ==
    ex_pc \notin {"idle", "enter"} =>
        /\ Len(ex_rounds) <= ex_plan[ex_pass]
        /\ ex_acts <= SumN(ex_rounds, Len(ex_rounds))
        /\ \A m \in 0..MaxSections :
              (\A k \in 1..Len(ex_rounds) : ex_rounds[k].n <= m) =>
                  ex_acts <= ex_plan[ex_pass] * m
        /\ \A k \in 1..Len(ex_rounds) :
              ex_rounds[k].n = 0 =>
                  /\ k = Len(ex_rounds)
                  /\ ex_pc = "empty"
                  /\ ex_log = <<>>
                  /\ ex_acts = SumN(ex_rounds, k - 1)

\* a call with rounds = 2 whose first round made attempts and whose second
\* round found no toggle: it returned
C23_Witness ==
    /\ ex_pc = "empty"
    /\ ex_plan[ex_pass] = 2
    /\ Len(ex_rounds) = 2
    /\ ex_rounds[1].n >= 2
    /\ ex_acts = ex_rounds[1].n

\* C30 (as stated): in the Resume phase's two calls, with every attempt going
\* through and every round locating the toggles of all sections, no section
\* expanded when a call starts is collapsed when it returns, and after the
\* second call every section is expanded.
C30_TwoPassesExpandAll ==
    (ex_plan = ResumePasses /\ ex_allOk /\ ex_allShown /\ ex_pc = "passed") =>
        /\ \A s \in 1..Len(expanded) : ex_before[s] => expanded[s]
        /\ ex_pass = 2 => \A s \in 1..Len(expanded) : expanded[s]

====
